---- MODULE Spec2Model ----
(***************************************************************************)
(* Model of invoke_meraki (getMeraki.py, lines 23-75): the rate-limit      *)
(* aware HTTP request executor.  Strings the code inspects (the method,    *)
(* the Retry-After header, the response body) are sequences of one         *)
(* character strings, so that upper(), int() and json() are computed.      *)
(***************************************************************************)
EXTENDS Integers, Sequences, FiniteSets, TLC

\* Number of invoke_meraki calls the caller makes in one behaviour.
MaxInvocations == 2

\* ------------------------------------------------------------ constants

\* A retry ceiling off by one.
MaxRetriesSix == 5 + 1

\* max_retries = 5 (line 27)
max_retries == 5

BASE_URL == "https://api.meraki.com/api/v1"

\* ------------------------------------------------------------ str.upper

Lower == <<"a", "b", "c", "d", "e", "f", "g", "h", "i", "j", "k", "l", "m",
           "n", "o", "p", "q", "r", "s", "t", "u", "v", "w", "x", "y", "z">>

Upper == <<"A", "B", "C", "D", "E", "F", "G", "H", "I", "J", "K", "L", "M",
           "N", "O", "P", "Q", "R", "S", "T", "U", "V", "W", "X", "Y", "Z">>

UpperChar(c) ==
    IF \E i \in 1..Len(Lower) : Lower[i] = c
    THEN Upper[CHOOSE i \in 1..Len(Lower) : Lower[i] = c]
    ELSE c

\* A comparison that forgets upper().
StrUpperIdentity(s) == s

\* method.upper()
StrUpper(s) == [i \in 1..Len(s) |-> UpperChar(s[i])]

GET    == <<"G", "E", "T">>
POST   == <<"P", "O", "S", "T">>
PUT    == <<"P", "U", "T">>
DELETE == <<"D", "E", "L", "E", "T", "E">>

\* The if/elif chain of lines 34-43: the requests function that is called,
\* "" when the else branch raises ValueError.
Dispatch(m) ==
    IF StrUpper(m) = GET THEN "get"
    ELSE IF StrUpper(m) = POST THEN "post"
    ELSE IF StrUpper(m) = PUT THEN "put"
    ELSE IF StrUpper(m) = DELETE THEN "delete"
    ELSE ""

\* ------------------------------------------------------------ int()

Digits == <<"0", "1", "2", "3", "4", "5", "6", "7", "8", "9">>

IsDigit(c) == \E i \in 1..Len(Digits) : Digits[i] = c

DigitVal(c) == (CHOOSE i \in 1..Len(Digits) : Digits[i] = c) - 1

RECURSIVE LStrip(_)
LStrip(s) == IF s # <<>> /\ Head(s) = " " THEN LStrip(Tail(s)) ELSE s

RECURSIVE RStrip(_)
RStrip(s) ==
    IF s # <<>> /\ s[Len(s)] = " " THEN RStrip(SubSeq(s, 1, Len(s) - 1)) ELSE s

RECURSIVE DigitsVal(_)
DigitsVal(s) ==
    IF s = <<>> THEN 0
    ELSE 10 * DigitsVal(SubSeq(s, 1, Len(s) - 1)) + DigitVal(s[Len(s)])

\* Python's int(str): surrounding whitespace stripped, an optional sign, then
\* one or more decimal digits; anything else raises ValueError (ok = FALSE).
PyInt(s) ==
    LET t == RStrip(LStrip(s))
        signed == t # <<>> /\ Head(t) \in {"-", "+"}
        d == IF signed THEN Tail(t) ELSE t
    IN  IF d # <<>> /\ \A i \in 1..Len(d) : IsDigit(d[i])
        THEN [ok |-> TRUE,
              val |-> IF signed /\ Head(t) = "-" THEN 0 - DigitsVal(d)
                      ELSE DigitsVal(d)]
        ELSE [ok |-> FALSE, val |-> 0]

\* ------------------------------------------------------------ values

\* A Python value the executor hands back or embeds in an error: None, a
\* decoded JSON list of integers, or a str (response.text).
PyNone      == [t |-> "None", list |-> <<>>, text |-> <<>>]
PyList(l)   == [t |-> "list", list |-> l, text |-> <<>>]
PyStr(s)    == [t |-> "str", list |-> <<>>, text |-> s]

\* response.json() on the body: null, [] and [d] (d a digit) are the JSON
\* texts of the model; any other body raises JSONDecodeError (ok = FALSE).
JsonDecode(b) ==
    IF b = <<"n", "u", "l", "l">> THEN [ok |-> TRUE, val |-> PyNone]
    ELSE IF b = <<"[", "]">> THEN [ok |-> TRUE, val |-> PyList(<<>>)]
    ELSE IF Len(b) = 3 /\ b[1] = "[" /\ IsDigit(b[2]) /\ b[3] = "]"
         THEN [ok |-> TRUE, val |-> PyList(<<DigitVal(b[2])>>)]
    ELSE [ok |-> FALSE, val |-> PyNone]

\* json.dumps(data): the inverse of JsonDecode on the values of the model.
JsonDumps(v) ==
    IF v.t = "None" THEN <<"n", "u", "l", "l">>
    ELSE IF v.list = <<>> THEN <<"[", "]">>
    ELSE <<"[", Digits[v.list[1] + 1], "]">>

\* An optional str: a header that may be absent, a request body that may be
\* None.
Absent     == [has |-> FALSE, v |-> <<>>]
Present(s) == [has |-> TRUE, v |-> s]

\* Python truthiness of the values the code tests with a bare `if`.
TruthyOpt(o) == o.has /\ o.v # <<>>
TruthyVal(v) == v.t # "None" /\ (v.t = "list" => v.list # <<>>)

\* ------------------------------------------------------------ inputs

Methods ==
    { <<"G", "E", "T">>, <<"g", "e", "t">>, <<"P", "o", "s", "t">>,
      <<"p", "U", "t">>, <<"d", "e", "l", "e", "t", "e">>,
      <<"P", "A", "T", "C", "H">>, <<"g", "e", "t", "s">>, <<>> }

Uris == { "/organizations/838074/uplinks/statuses?perPage=1000" }

Datas == { PyNone, PyList(<<1>>) }

\* The calls the caller makes: any method without data, and a POST with data.
Requests ==
    { <<m, u, PyNone>> : m \in Methods, u \in Uris }
    \cup { <<m, u, d>> : m \in {<<"P", "o", "s", "t">>}, u \in Uris, d \in Datas }

Statuses == { 199, 200, 299, 300, 404, 429 }

RetryAfters ==
    { Absent, Present(<<>>), Present(<<"3">>), Present(<<"1", "0">>),
      Present(<<"-", "1">>),
      Present(<<"W", "e", "d", ",", " ", "2", "1">>) }

Bodies == { <<>>, <<"[", "7", "]">>, <<"<", "h", ">">> }

TransportErrors == { "ConnectionError", "Timeout" }

\* What one call of requests.get/post/put/delete does: it returns a response
\* (exc = "") or raises a transport-level RequestException.
Responded(st, ra, b) == [exc |-> "", status |-> st, retryAfter |-> ra, body |-> b]
Failed(e)            == [exc |-> e, status |-> 0, retryAfter |-> Absent, body |-> <<>>]

\* The Retry-After header is only sent with a 429, whose body is an error
\* document; every other status comes with any body.
Behaviours ==
    { Responded(429, ra, <<"[", "7", "]">>) : ra \in RetryAfters }
    \cup { Responded(st, Absent, b) : st \in Statuses \ {429}, b \in Bodies }
    \cup { Failed(e) : e \in TransportErrors }

NoResponse == Responded(0, Absent, <<>>)

\* The installed requests library: from 2.27 on response.json() raises
\* requests.exceptions.JSONDecodeError, a RequestException; before, the
\* json module's JSONDecodeError (a ValueError).
Builds == { "requests>=2.27", "requests<2.27" }

\* ------------------------------------------------------------ state

VARIABLES
    build,      \* the requests library installed (fixed for a behaviour)
    pc,         \* "idle" | "loop" (line 31) | "got" (line 45) | "done"
    method,     \* parameter method
    uri,        \* parameter uri
    data,       \* parameter data
    url,        \* local url (line 29)
    attempt,    \* local attempt
    response,   \* local response
    outcome,    \* what the invocation handed to its caller
    log,        \* network calls, responses and sleeps of this invocation
    script,     \* what the transport did at each call of this invocation
    mode,       \* "free": the transport does anything; "replay": it repeats
    mock,       \* the transport behaviours still to be replayed
    prev,       \* the previous invocation: its request, transport, result
    ninv        \* invocations started so far

vars == <<build, pc, method, uri, data, url, attempt, response, outcome, log,
          script, mode, mock, prev, ninv>>

\* ------------------------------------------------------------ outcomes

NoOutcome ==
    [kind |-> "none", type |-> "", msg |-> "", status |-> 0, url |-> "",
     content |-> PyNone, inner |-> ""]

\* return v
Returned(v) == [NoOutcome EXCEPT !.kind = "return", !.content = v]

\* raise ValueError(f"Unsupported method: {method}") (line 43)
UnsupportedMethodError ==
    [NoOutcome EXCEPT !.kind = "raise", !.type = "ValueError",
                      !.msg = "Unsupported method"]

\* int(retry_after) on a str that is no integer literal (line 51)
IntValueError ==
    [NoOutcome EXCEPT !.kind = "raise", !.type = "ValueError",
                      !.msg = "invalid literal for int()"]

\* time.sleep(t) with t < 0 (line 53)
SleepValueError ==
    [NoOutcome EXCEPT !.kind = "raise", !.type = "ValueError",
                      !.msg = "sleep length must be non-negative"]

\* requests.exceptions.HTTPError(f"HTTP {status_code} at {url}\n{error_content}")
HTTPError(st, u, c) ==
    [NoOutcome EXCEPT !.kind = "raise", !.type = "HTTPError", !.msg = "HTTP",
                      !.status = st, !.url = u, !.content = c]

\* The exception a failing requests.get/post/put/delete raises.
TransportException(e) ==
    [NoOutcome EXCEPT !.kind = "raise", !.type = e]

\* The exception response.json() raises on a body that is not JSON.
JSONDecodeError ==
    [NoOutcome EXCEPT !.kind = "raise", !.type = "JSONDecodeError"]

\* isinstance(e, requests.exceptions.RequestException)
IsRequestException(e) ==
    \/ e.type \in TransportErrors
    \/ e.type = "HTTPError"
    \/ e.type = "JSONDecodeError" /\ build = "requests>=2.27"

\* The except clause of lines 73-75 applied to an exception raised in the try
\* block: a RequestException is replaced by a plain Exception whose message
\* holds the url and str(e); anything else propagates unchanged.
ExceptClause(e) ==
    IF IsRequestException(e)
    THEN [e EXCEPT !.type = "Exception",
                   !.msg = "An error occurred during the request to",
                   !.url = url, !.inner = e.type]
    ELSE e

\* ------------------------------------------------------------ log

CallEvent(fn, body) == [ev |-> "call", fn |-> fn, n |-> 0, payload |-> body]
RespEvent(st)       == [ev |-> "resp", fn |-> "", n |-> st, payload |-> Absent]
SleepEvent(t)       == [ev |-> "sleep", fn |-> "", n |-> t, payload |-> Absent]

\* data=json.dumps(data) if data else None (lines 37, 39); get and delete are
\* called without data (lines 35, 41).
Payload(fn, d) ==
    IF fn \in {"post", "put"} /\ TruthyVal(d) THEN Present(JsonDumps(d))
    ELSE Absent

NoPrev ==
    [method |-> <<>>, uri |-> "", data |-> PyNone, script |-> <<>>,
     outcome |-> NoOutcome, log |-> <<>>]

\* What the transport may do at the next call: anything, or, when the
\* transport replays the previous invocation, what it did then (and a
\* connection error once that is used up).
TransportChoices ==
    IF mode = "free" THEN Behaviours
    ELSE IF mock # <<>> THEN {Head(mock)}
    ELSE {Failed("ConnectionError")}

\* ------------------------------------------------------------ actions

Init ==
    /\ build \in Builds
    /\ pc = "idle"
    /\ method = <<>>
    /\ uri = ""
    /\ data = PyNone
    /\ url = ""
    /\ attempt = 0
    /\ response = NoResponse
    /\ outcome = NoOutcome
    /\ log = <<>>
    /\ script = <<>>
    /\ mode = "free"
    /\ mock = <<>>
    /\ prev = NoPrev
    /\ ninv = 0

\* An attempt counter kept from the previous invocation.
StaleAttempt == attempt

\* attempt = 0 (line 28)
InitialAttempt == 0

\* Lines 23-29: the call binds the parameters and initialises the locals.
Enter(m, u, d) ==
    /\ pc = "idle"
    /\ ninv < MaxInvocations
    /\ ninv' = ninv + 1
    /\ method' = m
    /\ uri' = u
    /\ data' = d
    /\ attempt' = InitialAttempt
    /\ url' = BASE_URL \o u
    /\ response' = NoResponse
    /\ outcome' = NoOutcome
    /\ log' = <<>>
    /\ script' = <<>>
    /\ pc' = "loop"
    /\ UNCHANGED build

\* A call of invoke_meraki against a transport that may do anything.
Invoke(m, u, d) ==
    /\ Enter(m, u, d)
    /\ mode' = "free"
    /\ mock' = <<>>
    /\ prev' = NoPrev

\* The previous call repeated against a transport that repeats what it did.
InvokeAgain ==
    /\ ninv >= 1
    /\ Enter(prev.method, prev.uri, prev.data)
    /\ mode' = "replay"
    /\ mock' = prev.script
    /\ UNCHANGED prev

\* The invocation ends handing o to its caller.
Finish(o) ==
    /\ outcome' = o
    /\ pc' = "done"

\* Lines 32-43, else branch: no requests function matches the method.
RaiseUnsupported ==
    /\ pc = "loop"
    /\ Dispatch(method) = ""
    /\ attempt' = attempt + 1
    /\ Finish(ExceptClause(UnsupportedMethodError))
    /\ UNCHANGED <<build, method, uri, data, url, response, log, script, mode,
                   mock, prev, ninv>>

\* A transport failure that is retried like a 429.
SendFailsRetried ==
    /\ pc = "loop"
    /\ Dispatch(method) # ""
    /\ attempt < max_retries
    /\ \E b \in TransportChoices :
        /\ b.exc # ""
        /\ attempt' = attempt + 1
        /\ log' = Append(log, CallEvent(Dispatch(method),
                                        Payload(Dispatch(method), data)))
        /\ script' = Append(script, b)
        /\ mock' = IF mock # <<>> THEN Tail(mock) ELSE mock
    /\ UNCHANGED <<build, pc, method, uri, data, url, response, outcome, mode,
                   prev, ninv>>

\* Lines 32-41 and 73-75: the request is sent and the transport raises.
SendFails ==
    /\ pc = "loop"
    /\ Dispatch(method) # ""
    /\ \E b \in TransportChoices :
        /\ b.exc # ""
        /\ attempt' = attempt + 1
        /\ log' = Append(log, CallEvent(Dispatch(method),
                                        Payload(Dispatch(method), data)))
        /\ script' = Append(script, b)
        /\ mock' = IF mock # <<>> THEN Tail(mock) ELSE mock
        /\ Finish(ExceptClause(TransportException(b.exc)))
    /\ UNCHANGED <<build, method, uri, data, url, response, mode, prev, ninv>>

\* Lines 32-45: the request is sent and a response comes back.
SendReceives ==
    /\ pc = "loop"
    /\ Dispatch(method) # ""
    /\ \E b \in TransportChoices :
        /\ b.exc = ""
        /\ attempt' = attempt + 1
        /\ log' = log \o <<CallEvent(Dispatch(method),
                                     Payload(Dispatch(method), data)),
                           RespEvent(b.status)>>
        /\ script' = Append(script, b)
        /\ mock' = IF mock # <<>> THEN Tail(mock) ELSE mock
        /\ response' = b
        /\ pc' = "got"
    /\ UNCHANGED <<build, method, uri, data, url, outcome, mode, prev, ninv>>

\* A success range that takes in 300.
IsSuccessInclusive(st) == 200 <= st /\ st <= 300

\* Line 57: 200 <= status_code < 300
IsSuccess(st) == 200 <= st /\ st < 300

\* A retry of every error status.
RateLimitedAnyError == ~IsSuccess(response.status) /\ attempt < max_retries

\* Line 48: the rate-limit branch is taken.
RateLimited == response.status = 429 /\ attempt < max_retries

\* A sleep that ignores the header.
SleepTimeIgnoresHeader(resp) == [ok |-> TRUE, val |-> 2]

\* Lines 49-51: sleep_time = int(retry_after) if retry_after else 2
\* (ok = FALSE when int() raises ValueError).
SleepTime(resp) ==
    IF TruthyOpt(resp.retryAfter) THEN PyInt(resp.retryAfter.v)
    ELSE [ok |-> TRUE, val |-> 2]

\* Lines 48-54: rate limited, the thread sleeps and the loop continues.
RetryAfterSleep ==
    /\ pc = "got"
    /\ RateLimited
    /\ SleepTime(response).ok
    /\ SleepTime(response).val >= 0
    /\ log' = Append(log, SleepEvent(SleepTime(response).val))
    /\ pc' = "loop"
    /\ UNCHANGED <<build, method, uri, data, url, attempt, response, outcome,
                   script, mode, mock, prev, ninv>>

\* Lines 48-53: rate limited, and int() or time.sleep() raises ValueError,
\* which the except clause of line 73 does not catch.
RetryAfterRaises ==
    /\ pc = "got"
    /\ RateLimited
    /\ ~(SleepTime(response).ok /\ SleepTime(response).val >= 0)
    /\ Finish(ExceptClause(IF SleepTime(response).ok THEN SleepValueError
                           ELSE IntValueError))
    /\ UNCHANGED <<build, method, uri, data, url, attempt, response, log,
                   script, mode, mock, prev, ninv>>

\* Line 59: return response.json() if response.content else None
SuccessResult(resp) ==
    IF resp.body # <<>>
    THEN IF JsonDecode(resp.body).ok THEN Returned(JsonDecode(resp.body).val)
         ELSE ExceptClause(JSONDecodeError)
    ELSE Returned(PyNone)

\* Lines 56-59 (and 73-75 when response.json() raises).
Success ==
    /\ pc = "got"
    /\ ~RateLimited
    /\ IsSuccess(response.status)
    /\ Finish(SuccessResult(response))
    /\ UNCHANGED <<build, method, uri, data, url, attempt, response, log,
                   script, mode, mock, prev, ninv>>

\* Lines 63-66: the body decoded as JSON, or response.text.
ErrorContent(resp) ==
    IF JsonDecode(resp.body).ok THEN JsonDecode(resp.body).val
    ELSE PyStr(resp.body)

\* Lines 61-71 and 73-75: the HTTPError is raised inside the try block.
ErrorResponse ==
    /\ pc = "got"
    /\ ~RateLimited
    /\ ~IsSuccess(response.status)
    /\ Finish(ExceptClause(HTTPError(response.status, url,
                                     ErrorContent(response))))
    /\ UNCHANGED <<build, method, uri, data, url, attempt, response, log,
                   script, mode, mock, prev, ninv>>

\* The caller has the outcome (line 144) and may call again.
Caller ==
    /\ pc = "done"
    /\ pc' = "idle"
    /\ prev' = [method |-> method, uri |-> uri, data |-> data,
                script |-> script, outcome |-> outcome, log |-> log]
    /\ UNCHANGED <<build, method, uri, data, url, attempt, response, outcome,
                   log, script, mode, mock, ninv>>

\* One step inside invoke_meraki.
Step ==
    \/ RaiseUnsupported
    \/ SendFails
    \/ SendReceives
    \/ RetryAfterSleep
    \/ RetryAfterRaises
    \/ Success
    \/ ErrorResponse

\* The script's own use of the executor (lines 143-144): one call.
Call(m, u, d) ==
    /\ ninv = 0
    /\ Invoke(m, u, d)

Next ==
    \/ \E r \in Requests : Call(r[1], r[2], r[3])
    \/ Step

Spec == Init /\ [][Next]_vars

\* The code is sequential and blocking: a started invocation keeps running
\* (the transport answers or fails, a sleep ends).
FairSpec == Spec /\ WF_vars(Step)

\* The calls of a caller that calls more than once.
RepeatRequests ==
    { <<GET, u, PyNone>> : u \in Uris }
    \cup { <<POST, u, PyList(<<1>>)>> : u \in Uris }
    \cup { <<<<"P", "A", "T", "C", "H">>, u, PyNone>> : u \in Uris }

\* The executor called repeatedly by one thread.
NextRepeat ==
    \/ \E r \in RepeatRequests : Invoke(r[1], r[2], r[3])
    \/ InvokeAgain
    \/ Step
    \/ Caller

SpecRepeat == Init /\ [][NextRepeat]_vars

\* ------------------------------------------------------------ observations

Count(e) == Cardinality({i \in DOMAIN log : log[i].ev = e})

NetworkCalls == Count("call")

Sleeps == Count("sleep")

Done == pc = "done"

\* What the transport did at the last network call.
LastBehaviour == script[Len(script)]

\* The invocation is over and the last thing the transport did was answer.
EndedByResponse == Done /\ script # <<>> /\ LastBehaviour.exc = ""

\* The failure kinds a caller can tell apart: the class of the exception.
IsHttpError(o)      == o.kind = "raise" /\ o.type = "HTTPError"
IsTransportError(o) == o.kind = "raise" /\ o.type = "Exception"
IsUnsupportedMethod(o) ==
    o.kind = "raise" /\ o.type = "ValueError" /\ o.msg = "Unsupported method"

\* Two characters that differ at most in case.
SameLetter(c, d) ==
    c = d \/ \E i \in 1..Len(Lower) : {c, d} = {Lower[i], Upper[i]}

\* Case-insensitive equality of two strings.
EqualsIgnoreCase(a, b) ==
    Len(a) = Len(b) /\ \A i \in 1..Len(a) : SameLetter(a[i], b[i])

SupportedMethod(m) == \E k \in {GET, POST, PUT, DELETE} : EqualsIgnoreCase(m, k)

\* A status in [200, 300).
Is2xx(st) == st \in 200..299

\* A Retry-After value that is a decimal integer, signed or not.
IsInteger(o) ==
    /\ o.has
    /\ o.v # <<>>
    /\ \A i \in 1..Len(o.v) : IsDigit(o.v[i]) \/ (i = 1 /\ o.v[i] \in {"-", "+"})
    /\ \E i \in 1..Len(o.v) : IsDigit(o.v[i])

\* A Retry-After value that is a number of seconds (1*DIGIT).
IsSeconds(o) == o.has /\ o.v # <<>> /\ \A i \in 1..Len(o.v) : IsDigit(o.v[i])

\* ------------------------------------------------------------ claims

\* C1 (as stated): an invocation ended by a response outside [200,300) (not a
\* 429, or a 429 on attempt 5) surfaces an HttpError carrying the status, the
\* full url and the decoded-or-raw body, of a kind other than TransportError.
C1_HttpErrorSurfaced ==
    (EndedByResponse /\ ~Is2xx(LastBehaviour.status)
        /\ (LastBehaviour.status # 429 \/ attempt = 5))
    => /\ IsHttpError(outcome)
       /\ ~IsTransportError(outcome)
       /\ outcome.status = LastBehaviour.status
       /\ outcome.url = BASE_URL \o uri
       /\ outcome.content = ErrorContent(LastBehaviour)

\* C2 (as stated): with 429 at every attempt (each with no Retry-After or one
\* that is a number of seconds) there are exactly 5 network calls, exactly 4
\* sleeps, none after the fifth response, and the invocation ends with an
\* HttpError of status 429.
C2_Always429 ==
    (Done /\ script # <<>>
        /\ \A i \in DOMAIN script :
              /\ script[i].exc = ""
              /\ script[i].status = 429
              /\ (~script[i].retryAfter.has \/ IsSeconds(script[i].retryAfter)))
    => /\ NetworkCalls = 5
       /\ Sleeps = 4
       /\ log[Len(log)].ev = "resp"
       /\ IsHttpError(outcome)
       /\ outcome.status = 429

C4_DefaultSleep ==
    \A i \in DOMAIN script :
      (i < 5 /\ script[i].exc = "" /\ script[i].status = 429
          /\ ~IsInteger(script[i].retryAfter)
          /\ (i < Len(script) \/ pc # "got"))
      => /\ ~(Done /\ i = Len(script))
         /\ Len(log) >= 3 * i
         /\ log[3 * i] = SleepEvent(2)

\* C5: a method that is none of GET, POST, PUT, DELETE in any casing ends in
\* UnsupportedMethod, which is neither TransportError nor HttpError, with no
\* network call and no sleep; a supported method in any casing is sent.
C5_UnsupportedMethod ==
    /\ (Done /\ ~SupportedMethod(method))
       => /\ IsUnsupportedMethod(outcome)
          /\ ~IsTransportError(outcome)
          /\ ~IsHttpError(outcome)
          /\ NetworkCalls = 0
          /\ Sleeps = 0
    /\ (pc \in {"got", "done"} /\ SupportedMethod(method)) => NetworkCalls >= 1

C5_Witness ==
    /\ Done
    /\ method = <<"P", "A", "T", "C", "H">>
    /\ outcome = UnsupportedMethodError
    /\ log = <<>>

\* C6: a transport failure at attempt n ends the invocation at once with
\* TransportError: n network calls in all, and neither a sleep nor a call
\* after the failing one.
C6_TransportFailsFast ==
    \A i \in DOMAIN script :
      script[i].exc # ""
      => /\ Done
         /\ i = Len(script)
         /\ i \in 1..5
         /\ attempt = i
         /\ NetworkCalls = i
         /\ Sleeps = i - 1
         /\ log[Len(log)].ev = "call"
         /\ IsTransportError(outcome)

C6_Witness ==
    /\ Done
    /\ Len(script) = 3
    /\ script[1].status = 429
    /\ script[2].status = 429
    /\ script[3].exc = "ConnectionError"
    /\ outcome.inner = "ConnectionError"

\* C7: only a 429 received before the fifth attempt is followed by anything:
\* every response but the last is a 429, there are never more than 5 calls,
\* and a response of any other status is the last event of the invocation.
C7_OnlyRateLimitRetried ==
    /\ \A i \in DOMAIN script :
          i < Len(script) => script[i].exc = "" /\ script[i].status = 429
    /\ Len(script) <= 5
    /\ NetworkCalls = Len(script)
    /\ \A j \in DOMAIN log :
          (log[j].ev = "resp" /\ log[j].n # 429) => j = Len(log)
    /\ \A j \in DOMAIN log :
          (log[j].ev = "resp" /\ j < Len(log)) => log[j + 1].ev = "sleep"

C7_Witness ==
    /\ Done
    /\ Len(script) = 2
    /\ script[1].status = 429
    /\ script[2].status = 404
    /\ log[Len(log)] = RespEvent(404)

\* C8 (as stated): a 2xx response ends the invocation in success: None for
\* an empty body, the decoded payload for any non-empty body; no other status
\* gives a success.
C8_PayloadOrNoContent ==
    /\ (EndedByResponse /\ Is2xx(LastBehaviour.status))
       => IF LastBehaviour.body = <<>>
          THEN outcome = Returned(PyNone)
          ELSE /\ outcome.kind = "return"
               /\ JsonDecode(LastBehaviour.body).ok
               /\ outcome.content = JsonDecode(LastBehaviour.body).val
    /\ (Done /\ outcome.kind = "return")
       => EndedByResponse /\ Is2xx(LastBehaviour.status)

\* C8 (amended): a 2xx response ends the invocation with None for an empty
\* body, with the decoded payload for a non-empty body that is JSON, and with
\* a failure for a non-empty body that is not JSON; no other status gives a
\* success.
C8_SuccessOutcome ==
    /\ (pc = "got" /\ Is2xx(response.status)) => ~RateLimited
    /\ (EndedByResponse /\ Is2xx(LastBehaviour.status))
       => IF LastBehaviour.body = <<>>
          THEN outcome = Returned(PyNone)
          ELSE IF JsonDecode(LastBehaviour.body).ok
          THEN outcome = Returned(JsonDecode(LastBehaviour.body).val)
          ELSE outcome.kind = "raise"
    /\ (EndedByResponse /\ LastBehaviour = Responded(200, Absent, <<"[", "7", "]">>))
       => outcome.content = PyList(<<7>>)
    /\ (Done /\ outcome.kind = "return")
       => EndedByResponse /\ Is2xx(LastBehaviour.status)

C8_Witness ==
    /\ EndedByResponse
    /\ LastBehaviour = Responded(299, Absent, <<"<", "h", ">">>)
    /\ outcome.kind = "raise"

\* C9: a started invocation terminates, hands its caller exactly one outcome
\* (a result or a failure, nothing before it ends and nothing else after),
\* and has made at most 5 network calls.
C9_TerminatesWithOneOutcome ==
    /\ [](pc \in {"loop", "got"} => <>Done)
    /\ [](Done => outcome.kind \in {"return", "raise"} /\ NetworkCalls <= 5)
    /\ [](~Done => outcome = NoOutcome)
    /\ [][Done => outcome' = outcome]_vars

C9_Witness ==
    /\ Done
    /\ NetworkCalls = 5
    /\ Sleeps = 4
    /\ outcome.kind = "raise"

\* C10: every invocation starts with attempt 0 and counts only its own
\* network calls, whatever came before; the previous request repeated against
\* the same transport behaviour gives the same outcome, calls and sleeps.
C10_FreshRetryState ==
    /\ (pc = "loop" /\ log = <<>>) => attempt = 0
    /\ (pc \in {"loop", "got"}) => attempt = NetworkCalls
    /\ (Done /\ mode = "replay")
       => /\ outcome = prev.outcome
          /\ log = prev.log
          /\ script = prev.script

C10_Witness ==
    /\ Done
    /\ mode = "replay"
    /\ ninv = 2
    /\ NetworkCalls = 5
    /\ Len(prev.script) = 5
    /\ outcome.status = 429

====
